---- MODULE Spec2Model ----
(***************************************************************************)
(* A model of chat_analyzer.py: one run of the Streamlit script is the     *)
(* sequence Load, (HaltOnNone | SelectFilters, ApplyFilters, TopStats,     *)
(* RenderCharts, DataViewer); every user interaction reruns the script.    *)
(* A Python exception that nothing catches ends the run ("crashed").       *)
(***************************************************************************)
EXTENDS Integers, Sequences, FiniteSets, TLC

VARIABLES data, df, spec, filtered_df, metrics, display_df, rendered, error, pc

vars == <<data, df, spec, filtered_df, metrics, display_df, rendered, error, pc>>

----------------------------------------------------------------------------
(* Bounds of the model.                                                    *)

MaxRecs == 2
AggRecs == 4

----------------------------------------------------------------------------
(* Values.                                                                 *)

\* JSON null / a key that no record value fills (NaN in the DataFrame).
NULL == "<null>"
\* The key is absent from the record.
MISSING == "<missing>"
\* pandas' not-a-time, the result of a coerced parse failure.
NaT == -1

\* A raw "timestamp" value: an ISO-8601 string (day of January 2024, hour,
\* UTC offset in hours), some other text, or null.
Iso(d, h, o) == [kind |-> "iso", day |-> d, hour |-> h, off |-> o]
NotADate == [kind |-> "text", day |-> 0, hour |-> 0, off |-> 0]
NullTs == [kind |-> "null", day |-> 0, hour |-> 0, off |-> 0]

\* A "content" value: a string (a sequence of characters) or null.
Str(s) == [isnull |-> FALSE, str |-> s]
NullContent == [isnull |-> TRUE, str |-> <<>>]

\* A value shown by st.metric.
IntVal(n) == [kind |-> "int", v |-> n]
Tenths(t) == [kind |-> "tenths", v |-> t]
NaN == [kind |-> "nan", v |-> 0]
NotShown == [kind |-> "unset", v |-> 0]

NoError == [type |-> "none", line |-> 0]
Raised(t, l) == [type |-> t, line |-> l]

Unbound == [state |-> "unbound", rows |-> <<>>]
NoneDf == [state |-> "None", rows |-> <<>>]
Frame(rows) == [state |-> "frame", rows |-> rows]

NoSpec == [preset |-> "", start_date |-> 0, end_date |-> 0,
           selected_type |-> "", selected_author |-> "", search_term |-> <<>>]
NoMetrics == [total |-> NotShown, replies |-> NotShown,
              avg_length |-> NotShown, messages_per_day |-> NotShown]

----------------------------------------------------------------------------
(* convert_to_df                                                           *)

\* pd.to_datetime(..., format='ISO8601', errors='coerce', utc=True) on one
\* value: the instant in hours since 2024-01-00T00:00Z, NaT if unparsable.
ToDatetime(ts) ==
    IF ts.kind = "iso" THEN ts.day * 24 + ts.hour - ts.off ELSE NaT

\* pd.DataFrame(data) has a column for every key some record carries; every
\* record of the model carries "timestamp" (possibly null), so that column
\* is absent only for an empty list.
HasTimestampColumn(d) == Len(d) > 0
HasTypeColumn(d) == \E i \in 1..Len(d) : d[i].type # MISSING

\* A cell of the 'type' column: NaN where the record has no such key.
TypeCell(t) == IF t = MISSING THEN NULL ELSE t

\* The frame after the timestamp column is converted; the index is the
\* record's position in the input.
Converted(d) ==
    [i \in 1..Len(d) |->
        [idx |-> i, timestamp |-> ToDatetime(d[i].timestamp),
         author |-> d[i].author, content |-> d[i].content,
         type |-> TypeCell(d[i].type)]]

\* df.dropna(subset=['timestamp'])
KeepRow(r) == r.timestamp # NaT
\* (mutant: the rows with NaT are kept)
DropNaSkipped(rows) == rows
DropNa(rows) == SelectSeq(rows, KeepRow)

\* df['type'].fillna('Default')
FillType(t) == IF t = NULL THEN "Default" ELSE t
FillNa(rows) == [i \in 1..Len(rows) |-> [rows[i] EXCEPT !.type = FillType(@)]]

----------------------------------------------------------------------------
(* Sidebar filters                                                         *)

\* Timestamp.date(): the UTC calendar date (days since 2024-01-00).
DateOf(t) == t \div 24

RECURSIVE SeqMin(_), SeqMax(_)
SeqMin(s) ==
    IF Len(s) = 1 THEN s[1]
    ELSE LET m == SeqMin(Tail(s)) IN IF s[1] < m THEN s[1] ELSE m
SeqMax(s) ==
    IF Len(s) = 1 THEN s[1]
    ELSE LET m == SeqMax(Tail(s)) IN IF s[1] > m THEN s[1] ELSE m

Timestamps(rows) == [i \in 1..Len(rows) |-> rows[i].timestamp]

\* df['timestamp'].min().date() and .max().date() of a frame with rows.
MinDate(rows) == DateOf(SeqMin(Timestamps(rows)))
MaxDate(rows) == DateOf(SeqMax(Timestamps(rows)))

Presets == {"Custom", "Last 7 days", "Last 30 days", "Last 90 days", "All time"}

\* The (start_date, end_date) pairs a preset allows; "Custom" is the two
\* date inputs, each limited to [min_date, max_date].
DateChoices(preset, rows) ==
    LET lo == MinDate(rows)
        hi == MaxDate(rows)
    IN  CASE preset = "Last 7 days"  -> {<<hi - 7, hi>>}
          [] preset = "Last 30 days" -> {<<hi - 30, hi>>}
          [] preset = "Last 90 days" -> {<<hi - 90, hi>>}
          [] preset = "All time"     -> {<<lo, hi>>}
          [] OTHER                   -> (lo..hi) \X (lo..hi)

message_types == {"All", "Default", "Reply"}

\* ['All'] + sorted(df['author'].unique().tolist())
AuthorChoices(rows) == {"All"} \cup {rows[i].author : i \in 1..Len(rows)}

\* The texts typed into "Search in messages:".
SearchTerms == {<<>>, <<"H", "I">>, <<".">>, <<"x">>}

----------------------------------------------------------------------------
(* Apply all filters                                                       *)

\* re.IGNORECASE on the letters of the model's alphabet.
Lower(c) == CASE c = "H" -> "h" [] c = "I" -> "i" [] OTHER -> c

\* One pattern character against one character of the text: Series.str.contains
\* compiles its argument as a regular expression (regex=True is the default),
\* where "." stands for any character.
CharMatches(p, c) == p = "." \/ Lower(p) = Lower(c)

\* re.search(pat, s, re.IGNORECASE) for a pattern of letters and dots.
RegexSearch(pat, s) ==
    \E i \in 1..(Len(s) - Len(pat) + 1) :
        \A j \in 1..Len(pat) : CharMatches(pat[j], s[i + j - 1])

\* df['content'].str.contains(search_term, case=False, na=False), one cell.
StrContains(content, pat) ==
    IF content.isnull THEN FALSE ELSE RegexSearch(pat, content.str)

\* (mutant: the end date is excluded)
DateMaskExclusive(r, s) ==
    DateOf(r.timestamp) >= s.start_date /\ DateOf(r.timestamp) < s.end_date

DateMask(r, s) ==
    DateOf(r.timestamp) >= s.start_date /\ DateOf(r.timestamp) <= s.end_date

TypeMask(r, s) ==
    IF s.selected_type # "All" THEN r.type = s.selected_type ELSE TRUE

AuthorMask(r, s) ==
    IF s.selected_author # "All" THEN r.author = s.selected_author ELSE TRUE

SearchMask(r, s) ==
    IF s.search_term # <<>> THEN StrContains(r.content, s.search_term) ELSE TRUE

Mask(r, s) == DateMask(r, s) /\ TypeMask(r, s) /\ AuthorMask(r, s) /\ SearchMask(r, s)

\* df[mask]
Filtered(rows, s) == LET Keep(r) == Mask(r, s) IN SelectSeq(rows, Keep)

----------------------------------------------------------------------------
(* Top stats row                                                           *)

RECURSIVE SeqSum(_)
SeqSum(s) == IF s = <<>> THEN 0 ELSE s[1] + SeqSum(Tail(s))

\* num/den rounded to one decimal, in tenths; ties go to the even digit.
RoundTenths(num, den) ==
    LET q == (10 * num) \div den
        r == (10 * num) % den
    IN  IF 2 * r < den THEN q
        ELSE IF 2 * r > den THEN q + 1
        ELSE IF q % 2 = 0 THEN q ELSE q + 1

IsReply(r) == r.type = "Reply"
Replies(rows) == Len(SelectSeq(rows, IsReply))

\* Series.str.len() is NaN on a null cell and mean() skips NaN.
HasContent(r) == ~r.content.isnull
ContentLengths(rows) ==
    LET withText == SelectSeq(rows, HasContent)
    IN  [i \in 1..Len(withText) |-> Len(withText[i].content.str)]

\* round(filtered_df['content'].str.len().mean(), 1)
AvgLength(rows) ==
    LET lens == ContentLengths(rows)
    IN  IF Len(lens) = 0 THEN NaN ELSE Tenths(RoundTenths(SeqSum(lens), Len(lens)))

\* len(filtered_df['timestamp'].dt.date.unique())
UniqueDates(rows) == {DateOf(rows[i].timestamp) : i \in 1..Len(rows)}

\* (mutant: the dates are counted with their repetitions)
MessagesPerDayNotUnique(rows) == Tenths(RoundTenths(Len(rows), Len(rows)))

\* round(len(filtered_df) / len(unique dates), 1), for a non-zero divisor
MessagesPerDay(rows) == Tenths(RoundTenths(Len(rows), Cardinality(UniqueDates(rows))))

----------------------------------------------------------------------------
(* Data viewer                                                             *)

\* filtered_df[['timestamp', 'content', 'author', 'type']]
Project(rows) == rows

SortedDesc(rows) ==
    \A i \in 1..(Len(rows) - 1) : rows[i].timestamp >= rows[i + 1].timestamp

\* sort_values('timestamp', ascending=False): the rows in descending order
\* of timestamp; the order among equal timestamps is the sort routine's.
SortValues(rows) ==
    LET n == Len(rows)
        perms == {p \in [1..n -> 1..n] : \A i, j \in 1..n : i # j => p[i] # p[j]}
        sorted == {[i \in 1..n |-> rows[p[i]]] : p \in perms}
    IN  {t \in sorted : SortedDesc(t)}

----------------------------------------------------------------------------
(* The script, step by step                                                *)

Crash(t, l) == /\ error' = Raised(t, l)
               /\ pc' = "crashed"

\* Lines 28-32: the title, load_chat_data and convert_to_df.  A missing
\* 'timestamp' column raises KeyError inside the try block, and again in the
\* handler's df['timestamp'].head(), so it leaves convert_to_df.  Whether
\* pd.to_datetime itself raises is the library's outcome, chosen here by the
\* environment; the handler then reports it and returns None.  A missing
\* 'type' column raises KeyError at line 25, outside the try block.
Load ==
    /\ pc = "load"
    /\ \E toDatetimeRaises \in BOOLEAN :
        IF ~HasTimestampColumn(data)
        THEN /\ rendered' = <<"title", "error: converting timestamps">>
             /\ Crash("KeyError", 22)
             /\ UNCHANGED df
        ELSE IF toDatetimeRaises
        THEN /\ rendered' = <<"title", "error: converting timestamps", "sample">>
             /\ df' = NoneDf
             /\ pc' = "check"
             /\ UNCHANGED error
        ELSE IF ~HasTypeColumn(data)
        THEN /\ rendered' = <<"title">>
             /\ Crash("KeyError", 25)
             /\ UNCHANGED df
        ELSE /\ rendered' = <<"title">>
             /\ df' = Frame(FillNa(DropNa(Converted(data))))
             /\ pc' = "check"
             /\ UNCHANGED error
    /\ UNCHANGED <<data, spec, filtered_df, metrics, display_df>>

\* (mutant: st.stop() is left out; the script goes on to the sidebar and
\* fails on df['timestamp'] of None)
HaltOnNoneWithoutStop ==
    /\ pc = "check"
    /\ df.state = "None"
    /\ rendered' = rendered \o <<"error: failed to process", "sidebar">>
    /\ Crash("TypeError", 53)
    /\ UNCHANGED <<data, df, spec, filtered_df, metrics, display_df>>

\* Lines 35-37: st.error and st.stop().
HaltOnNone ==
    /\ pc = "check"
    /\ df.state = "None"
    /\ rendered' = Append(rendered, "error: failed to process")
    /\ pc' = "stopped"
    /\ UNCHANGED <<data, df, spec, filtered_df, metrics, display_df, error>>

\* Lines 39-89: the sidebar widgets.  On a frame without rows min() and
\* max() are NaT, so are start_date and end_date, and the run ends with an
\* exception before any filter is chosen (pd.date_range(NaT, NaT) raises
\* ValueError at line 77 under the presets).
SelectFilters ==
    /\ pc = "check"
    /\ df.state = "frame"
    /\ IF df.rows = <<>>
       THEN /\ rendered' = Append(rendered, "sidebar")
            /\ Crash("ValueError", 77)
            /\ UNCHANGED spec
       ELSE /\ \E preset \in Presets, ty \in message_types,
                  au \in AuthorChoices(df.rows), term \in SearchTerms :
              \E dates \in DateChoices(preset, df.rows) :
                spec' = [preset |-> preset,
                         start_date |-> dates[1], end_date |-> dates[2],
                         selected_type |-> ty, selected_author |-> au,
                         search_term |-> term]
            /\ rendered' = Append(rendered, "sidebar")
            /\ pc' = "filter"
            /\ UNCHANGED error
    /\ UNCHANGED <<data, df, filtered_df, metrics, display_df>>

\* Lines 91-102.
ApplyFilters ==
    /\ pc = "filter"
    /\ filtered_df' = Filtered(df.rows, spec)
    /\ rendered' = Append(rendered, "showing")
    /\ pc' = "stats"
    /\ UNCHANGED <<data, df, spec, metrics, display_df, error>>

\* Lines 106-118: the fourth metric divides by the number of distinct dates.
TopStats ==
    /\ pc = "stats"
    /\ LET shown == [total |-> IntVal(Len(filtered_df)),
                     replies |-> IntVal(Replies(filtered_df)),
                     avg_length |-> AvgLength(filtered_df),
                     messages_per_day |-> NotShown]
       IN  IF Cardinality(UniqueDates(filtered_df)) = 0
           THEN /\ metrics' = shown
                /\ rendered' = rendered \o <<"Total Messages", "Replies",
                                             "Avg Message Length">>
                /\ Crash("ZeroDivisionError", 117)
           ELSE /\ metrics' = [shown EXCEPT
                                 !.messages_per_day = MessagesPerDay(filtered_df)]
                /\ rendered' = rendered \o <<"Total Messages", "Replies",
                                             "Avg Message Length", "Messages/Day">>
                /\ pc' = "charts"
                /\ UNCHANGED error
    /\ UNCHANGED <<data, df, spec, filtered_df, display_df>>

\* Lines 120-199: the four expanders, all computed from filtered_df.
RenderCharts ==
    /\ pc = "charts"
    /\ rendered' = rendered \o <<"timeline", "distribution", "authors", "activity">>
    /\ pc' = "viewer"
    /\ UNCHANGED <<data, df, spec, filtered_df, metrics, display_df, error>>

\* (mutant: the table is sorted in place, df.sort_values(..., inplace=True))
DataViewerInPlace ==
    /\ pc = "viewer"
    /\ display_df' \in SortValues(Project(filtered_df))
    /\ df' \in {Frame(t) : t \in SortValues(df.rows)}
    /\ rendered' = rendered \o <<"caption", "table">>
    /\ pc' = "done"
    /\ UNCHANGED <<data, spec, filtered_df, metrics, error>>

\* Lines 201-234.
DataViewer ==
    /\ pc = "viewer"
    /\ display_df' \in SortValues(Project(filtered_df))
    /\ rendered' = rendered \o <<"caption", "table">>
    /\ pc' = "done"
    /\ UNCHANGED <<data, df, spec, filtered_df, metrics, error>>

\* A user interaction after the run ended: Streamlit runs the script again
\* from the top on the same file.
Rerun ==
    /\ pc \in {"done", "stopped", "crashed"}
    /\ df' = Unbound
    /\ spec' = NoSpec
    /\ filtered_df' = <<>>
    /\ metrics' = NoMetrics
    /\ display_df' = <<>>
    /\ rendered' = <<>>
    /\ error' = NoError
    /\ pc' = "load"
    /\ UNCHANGED data

Next ==
    \/ Load
    \/ HaltOnNone
    \/ SelectFilters
    \/ ApplyFilters
    \/ TopStats
    \/ RenderCharts
    \/ DataViewer
    \/ Rerun

----------------------------------------------------------------------------
(* Inputs                                                                  *)

BoundedSeq(S, n) == UNION {[1..k -> S] : k \in 0..n}

Fresh ==
    /\ df = Unbound
    /\ spec = NoSpec
    /\ filtered_df = <<>>
    /\ metrics = NoMetrics
    /\ display_df = <<>>
    /\ rendered = <<>>
    /\ error = NoError
    /\ pc = "load"

\* "2024-01-01T10:00:00Z", "2024-01-02T10:00:00Z",
\* "2024-01-01T23:00:00-02:00" (which is 2024-01-02T01:00:00Z) and
\* "2024-01-03T10:00:00Z".
T1 == Iso(1, 10, 0)
T2 == Iso(2, 10, 0)
T3 == Iso(1, 23, -2)
T4 == Iso(3, 10, 0)

Rec(ts, au, co, ty) == [timestamp |-> ts, author |-> au, content |-> co, type |-> ty]

\* Records for the normalizer: timestamps that parse or not, types present,
\* null or absent.
NormRecords ==
    {Rec(ts, "A", Str(<<"h", "i">>), ty) :
        ts \in {T1, T3, NotADate, NullTs}, ty \in {"Default", "Reply", NULL, MISSING}}

\* Records for the filters: two UTC dates, both types, and three authors,
\* one of them named like the selectbox's first entry.
FilterRecords ==
    {Rec(ts, au, Str(<<"h", "i">>), ty) :
        ts \in {T1, T3}, au \in {"A", "B", "All"}, ty \in {"Default", "Reply"}}

\* Records for the search: null, empty and non-empty contents.
SearchRecords ==
    {Rec(T1, "A", co, "Default") :
        co \in {NullContent, Str(<<>>), Str(<<"h", "i">>), Str(<<"h", ".">>)}}

\* The two records of the documented example ("hi", "hello there") and a
\* third one on a third day.
Example1 == Rec(T1, "A", Str(<<"h", "i">>), "Default")
Example2 == Rec(T2, "B", Str(<<"h", "e", "l", "l", "o", " ", "t", "h", "e", "r", "e">>), "Reply")
Example3 == Rec(T4, "A", Str(<<>>), "Default")
ExampleRecords == {Example1, Example2, Example3}

Init ==
    /\ data \in BoundedSeq(NormRecords, MaxRecs)
    /\ Fresh

InitFilter ==
    /\ data \in BoundedSeq(FilterRecords, MaxRecs)
    /\ Fresh

InitSearch ==
    /\ data \in BoundedSeq(SearchRecords, MaxRecs)
    /\ Fresh

InitAgg ==
    /\ data \in BoundedSeq(ExampleRecords, AggRecs) \cup BoundedSeq(SearchRecords, MaxRecs)
    /\ Fresh

Spec == Init /\ [][Next]_vars
SpecFilter == InitFilter /\ [][Next]_vars
SpecSearch == InitSearch /\ [][Next]_vars
SpecAgg == InitAgg /\ [][Next]_vars

----------------------------------------------------------------------------
(* Properties                                                              *)

\* The run has passed "Apply all filters" / the top stats row (or failed
\* in it or after it).
AfterFilter ==
    pc \in {"stats", "charts", "viewer", "done"} \/ (pc = "crashed" /\ error.line > 102)
AfterStats ==
    pc \in {"charts", "viewer", "done"} \/ (pc = "crashed" /\ error.line >= 106)

Parsed(i) == data[i].timestamp.kind = "iso"

\* The UTC calendar date of input record i, from its local date, hour and
\* offset.
RawUtcDate(i) ==
    LET t == data[i].timestamp
    IN  t.day + (IF t.hour - t.off >= 24 THEN 1 ELSE IF t.hour - t.off < 0 THEN -1 ELSE 0)

\* t tenths is num/den rounded to one decimal.
IsRounded(t, num, den) ==
    LET d == 10 * num - t * den
    IN  2 * (IF d < 0 THEN -d ELSE d) <= den

RECURSIVE TotalChars(_)
TotalChars(rows) ==
    IF rows = <<>> THEN 0 ELSE Len(rows[1].content.str) + TotalChars(Tail(rows))

\* C1: with an empty filtered set the render raises no division-by-zero
\* fault; the total count is 0 and messages-per-day is reported as "no data".
C1_EmptySetNoDivisionFault ==
    (AfterStats /\ filtered_df = <<>>) =>
        /\ pc # "crashed"
        /\ metrics.total = IntVal(0)
        /\ metrics.messages_per_day = NaN

\* C2: records whose timestamps are all unparsable normalize to the
\* NormalizationError outcome (None), not to an empty table that is used.
C2_AllUnparsableGivesNone ==
    (/\ pc # "load"
     /\ Len(data) > 0
     /\ HasTypeColumn(data)
     /\ \A i \in 1..Len(data) : ~Parsed(i)) => df.state = "None"

\* C3: every record of the normalized table has a valid timestamp and a
\* non-null type, and a record is retained iff its timestamp parsed.
C3_RetainedIffParsed ==
    df.state = "frame" =>
        /\ \A k \in 1..Len(df.rows) :
              /\ df.rows[k].timestamp # NaT
              /\ df.rows[k].timestamp >= 0
              /\ df.rows[k].type \notin {NULL, MISSING}
        /\ {df.rows[k].idx : k \in 1..Len(df.rows)} = {i \in 1..Len(data) : Parsed(i)}
        /\ \A k, l \in 1..Len(df.rows) : k # l => df.rows[k].idx # df.rows[l].idx

C3_Witness ==
    /\ df.state = "frame"
    /\ Len(df.rows) > 0
    /\ Len(df.rows) < Len(data)
    /\ \E k \in 1..Len(df.rows) : data[df.rows[k].idx].type \in {NULL, MISSING}

\* C4: an inverted date range gives an empty filtered result and the render
\* completes normally.
C4_InvertedRangeRendersEmpty ==
    (spec.preset = "Custom" /\ spec.start_date > spec.end_date) =>
        /\ pc # "crashed"
        /\ AfterFilter => filtered_df = <<>>

\* The predicate of C5 on a row of the normalized table.
InDateTypeAuthor(r) ==
    /\ spec.start_date <= RawUtcDate(r.idx)
    /\ RawUtcDate(r.idx) <= spec.end_date
    /\ spec.selected_type = "All" \/ r.type = spec.selected_type
    /\ spec.selected_author = "All" \/ r.author = spec.selected_author

\* C5: the filtered set is exactly the records whose UTC date lies in
\* [start_date, end_date], whose type is the selected one unless "All" and
\* whose author is the selected one unless "All" (no search term given); with
\* a search term it is a part of them.
C5_FilteredSetExact ==
    AfterFilter =>
        /\ \A k \in 1..Len(filtered_df) : InDateTypeAuthor(filtered_df[k])
        /\ spec.search_term = <<>> => filtered_df = SelectSeq(df.rows, InDateTypeAuthor)

C5_Witness ==
    /\ AfterFilter
    /\ spec.search_term = <<>>
    /\ spec.selected_type # "All"
    /\ spec.selected_author # "All"
    /\ filtered_df # <<>>
    /\ Len(filtered_df) < Len(df.rows)
    /\ \E k \in 1..Len(filtered_df) :
          /\ RawUtcDate(filtered_df[k].idx) = spec.end_date
          /\ data[filtered_df[k].idx].timestamp.day # spec.end_date

\* content contains term as a literal substring, compared case-insensitively.
LiteralContains(content, term) ==
    /\ ~content.isnull
    /\ \E i \in 1..(Len(content.str) - Len(term) + 1) :
          \A j \in 1..Len(term) : Lower(term[j]) = Lower(content.str[i + j - 1])

PassesLiteralSearch(r) ==
    /\ DateMask(r, spec) /\ TypeMask(r, spec) /\ AuthorMask(r, spec)
    /\ spec.search_term = <<>> \/ LiteralContains(r.content, spec.search_term)

\* C6: with a search term a record passes iff its content contains the term
\* as a literal substring, case-insensitively (never with empty or null
\* content); with an empty term the search predicate is omitted.
C6_SearchIsLiteralSubstring ==
    AfterFilter => filtered_df = SelectSeq(df.rows, PassesLiteralSearch)

\* C7: when convert_to_df returned None the session halts: no filter is
\* chosen or applied, no aggregate computed, nothing rendered after the error.
C7_HaltsOnNone ==
    df.state = "None" =>
        /\ pc \in {"check", "stopped"}
        /\ spec = NoSpec
        /\ filtered_df = <<>>
        /\ metrics = NoMetrics
        /\ display_df = <<>>
        /\ error = NoError
        /\ pc = "stopped" =>
              rendered = <<"title", "error: converting timestamps", "sample",
                           "error: failed to process">>

C7_Witness == pc = "stopped" /\ df.state = "None"

\* C8: whenever types are missing or null, also when no record has a type
\* field, normalization succeeds, such records get type "Default" and the
\* others keep their type.
C8_MissingTypeDefaults ==
    (pc # "load" /\ Len(data) > 0 /\ df.state # "None") =>
        /\ df.state = "frame"
        /\ \A k \in 1..Len(df.rows) :
              df.rows[k].type =
                  IF data[df.rows[k].idx].type \in {NULL, MISSING}
                  THEN "Default" ELSE data[df.rows[k].idx].type

ClaimDates == {RawUtcDate(filtered_df[k].idx) : k \in 1..Len(filtered_df)}
ClaimReplies == Cardinality({k \in 1..Len(filtered_df) : filtered_df[k].type = "Reply"})

\* The documented example: both records, the range covering both days, no
\* other constraint, gives 2, 1, 6.5 and 1.0.
ExampleCase ==
    /\ data = <<Example1, Example2>>
    /\ AfterStats
    /\ spec.start_date <= 1 /\ spec.end_date >= 2
    /\ spec.selected_type = "All" /\ spec.selected_author = "All"
    /\ spec.search_term = <<>>
ExampleMetrics ==
    [total |-> IntVal(2), replies |-> IntVal(1),
     avg_length |-> Tenths(65), messages_per_day |-> Tenths(10)]

\* C9 as stated: on a non-empty filtered set (of records with string
\* content) total and reply counts are the numbers of records, the mean
\* length is sum/total rounded to one decimal, and messages-per-day is
\* total / distinct dates.
C9_AsStated ==
    /\ (AfterStats /\ filtered_df # <<>> /\ \A k \in 1..Len(filtered_df) : HasContent(filtered_df[k])) =>
          /\ metrics.total = IntVal(Len(filtered_df))
          /\ metrics.replies = IntVal(ClaimReplies)
          /\ metrics.avg_length.kind = "tenths"
          /\ IsRounded(metrics.avg_length.v, TotalChars(filtered_df), Len(filtered_df))
          /\ metrics.messages_per_day.kind = "tenths"
          /\ metrics.messages_per_day.v * Cardinality(ClaimDates) = 10 * Len(filtered_df)
    /\ ExampleCase => metrics = ExampleMetrics

\* C9, amended: messages-per-day is total / distinct dates rounded to one
\* decimal, and the mean length is taken over the records whose content is
\* not null (no value when there is none).
C9_Aggregates ==
    /\ (AfterStats /\ filtered_df # <<>>) =>
          LET withText == SelectSeq(filtered_df, HasContent)
          IN  /\ metrics.total = IntVal(Len(filtered_df))
              /\ metrics.replies = IntVal(ClaimReplies)
              /\ IF withText = <<>>
                 THEN metrics.avg_length = NaN
                 ELSE /\ metrics.avg_length.kind = "tenths"
                      /\ IsRounded(metrics.avg_length.v, TotalChars(withText), Len(withText))
              /\ metrics.messages_per_day.kind = "tenths"
              /\ IsRounded(metrics.messages_per_day.v, Len(filtered_df), Cardinality(ClaimDates))
    /\ ExampleCase => metrics = ExampleMetrics

C9_Witness == ExampleCase /\ pc = "done" /\ metrics = ExampleMetrics

\* C10: once the normalized table is built no step of the pipeline changes
\* it, and the filtered set is made of its rows.
C10_TableImmutable ==
    /\ [](AfterFilter =>
            \A k \in 1..Len(filtered_df) :
                \E j \in 1..Len(df.rows) : filtered_df[k] = df.rows[j])
    /\ [][(df.state = "frame" /\ pc \in {"check", "filter", "stats", "charts", "viewer"})
            => df' = df]_vars

C10_Witness ==
    /\ pc = "done"
    /\ Len(display_df) >= 2
    /\ display_df # filtered_df
    /\ df = Frame(FillNa(DropNa(Converted(data))))

====
